---- MODULE Spec2Model ----
(***************************************************************************)
(* Model of set.py: the SET card game (set detection, card replacement and *)
(* the home / playing / end event loop of main).                           *)
(*                                                                         *)
(* Python lists that the code indexes by board position are functions on   *)
(* 0..n-1 (displayed_cards) so that slot numbers are the source's; lists   *)
(* that are only scanned or popped are sequences, read through At(s, i)    *)
(* with the source's 0-based index.                                        *)
(***************************************************************************)
EXTENDS Integers, Sequences, FiniteSets, TLC

(***************************************************************************)
(* Bounds of the model.                                                    *)
(***************************************************************************)
\* number of card files in the folder beyond the 12 that are dealt
ExtraCards == 3
\* largest round time the Up button is followed to
MaxHomeTimer == 2
\* largest computer score the countdown is followed to
MaxScore == 6
\* longest card list given to the search functions on their own
MaxLen == 4

(***************************************************************************)
(* Program constants.                                                      *)
(***************************************************************************)
BoardSize == 12
DefaultHomeTimer == 30
NumAttributes == 4

(***************************************************************************)
(* Card (class Card) and None.                                             *)
(***************************************************************************)
Colors == {"red", "green", "purple"}
Symbols == {"diamond", "squiggle", "oval"}
Shadings == {"empty", "filled", "shaded"}
Numbers == {1, 2, 3}

Card == [color : Colors, symbol : Symbols, shading : Shadings, number : Numbers]

\* Python's None in a board slot; as_vector is not defined on it
None == [color |-> "None", symbol |-> "None", shading |-> "None", number |-> 0]

\* Python's None as the result of find_one_set (falsy, like no tuple)
NoSet == <<>>

At(s, i) == s[i + 1]

colors == [red |-> 0, green |-> 1, purple |-> 2]
symbols == [diamond |-> 0, squiggle |-> 1, oval |-> 2]
shadings == [empty |-> 0, filled |-> 1, shaded |-> 2]

as_vector(self) ==
    <<colors[self.color], symbols[self.symbol], shadings[self.shading], self.number - 1>>

\* the loop written as range(3): the number of symbols is left out of the test
all_same_or_all_different_first_three(vectors) ==
    \A i \in 0 .. NumAttributes - 2 :
        Cardinality({At(vectors[n], i) : n \in 1 .. 3}) \in {1, 3}

\* the loop over the four positions of the three vectors
all_same_or_all_different(vectors) ==
    \A i \in 0 .. NumAttributes - 1 :
        Cardinality({At(vectors[n], i) : n \in 1 .. 3}) \in {1, 3}

is_set(card1, card2, card3) ==
    all_same_or_all_different(<<as_vector(card1), as_vector(card2), as_vector(card3)>>)

(***************************************************************************)
(* find_one_set: three nested loops (for i, for j, for k), one operator    *)
(* per loop; the first hit is returned out of all three.                   *)
(***************************************************************************)
RECURSIVE find_one_set_k(_, _, _, _)
find_one_set_k(cards, i, j, k) ==
    IF k >= Len(cards) THEN NoSet
    ELSE IF is_set(At(cards, i), At(cards, j), At(cards, k)) THEN <<i, j, k>>
    ELSE find_one_set_k(cards, i, j, k + 1)

RECURSIVE find_one_set_j(_, _, _)
find_one_set_j(cards, i, j) ==
    IF j >= Len(cards) THEN NoSet
    ELSE LET hit == find_one_set_k(cards, i, j, j + 1)
         IN  IF hit # NoSet THEN hit ELSE find_one_set_j(cards, i, j + 1)

\* the outer loop without the early return: a later hit replaces an earlier one
RECURSIVE find_one_set_i_keeps_last(_, _)
find_one_set_i_keeps_last(cards, i) ==
    IF i >= Len(cards) THEN NoSet
    ELSE LET later == find_one_set_i_keeps_last(cards, i + 1)
         IN  IF later # NoSet THEN later ELSE find_one_set_j(cards, i, i + 1)

RECURSIVE find_one_set_i(_, _)
find_one_set_i(cards, i) ==
    IF i >= Len(cards) THEN NoSet
    ELSE LET hit == find_one_set_j(cards, i, i + 1)
         IN  IF hit # NoSet THEN hit ELSE find_one_set_i(cards, i + 1)

find_one_set(cards) == find_one_set_i(cards, 0)

(***************************************************************************)
(* find_all_sets: the same loops; each loop yields the hits it appends to  *)
(* sets, in the order it appends them.                                     *)
(***************************************************************************)
RECURSIVE find_all_sets_k(_, _, _, _)
find_all_sets_k(cards, i, j, k) ==
    IF k >= Len(cards) THEN <<>>
    ELSE (IF is_set(At(cards, i), At(cards, j), At(cards, k))
          THEN << <<i, j, k>> >> ELSE <<>>)
         \o find_all_sets_k(cards, i, j, k + 1)

\* the inner range started one too far: range(j + 2, len(cards))
RECURSIVE find_all_sets_j_skips_next(_, _, _)
find_all_sets_j_skips_next(cards, i, j) ==
    IF j >= Len(cards) THEN <<>>
    ELSE find_all_sets_k(cards, i, j, j + 2) \o find_all_sets_j_skips_next(cards, i, j + 1)

RECURSIVE find_all_sets_j(_, _, _)
find_all_sets_j(cards, i, j) ==
    IF j >= Len(cards) THEN <<>>
    ELSE find_all_sets_k(cards, i, j, j + 1) \o find_all_sets_j(cards, i, j + 1)

RECURSIVE find_all_sets_i(_, _)
find_all_sets_i(cards, i) ==
    IF i >= Len(cards) THEN <<>>
    ELSE find_all_sets_j(cards, i, i + 1) \o find_all_sets_i(cards, i + 1)

find_all_sets(cards) == find_all_sets_i(cards, 0)

(***************************************************************************)
(* The card folder and the outcomes of random.shuffle that are followed.   *)
(***************************************************************************)
card(color, symbol, shading, number) ==
    [color |-> color, symbol |-> symbol, shading |-> shading, number |-> number]

\* os.listdir(folder): the card files of the folder, in the order listed
Listing == <<
    card("green", "diamond", "filled", 2),
    card("purple", "diamond", "shaded", 3),
    card("green", "oval", "filled", 1),
    card("purple", "squiggle", "empty", 1),
    card("purple", "diamond", "empty", 2),
    card("purple", "squiggle", "filled", 3),
    card("purple", "squiggle", "empty", 2),
    card("red", "squiggle", "filled", 2),
    card("red", "oval", "filled", 2),
    card("green", "diamond", "filled", 3),
    card("green", "diamond", "empty", 1),
    card("red", "squiggle", "filled", 3),
    card("green", "diamond", "shaded", 2),
    card("red", "diamond", "empty", 3),
    card("purple", "oval", "empty", 2),
    card("green", "oval", "shaded", 3)
    >>

load_cards_from_folder == SubSeq(Listing, 1, BoardSize + ExtraCards)

Reverse(s) == [i \in 1 .. Len(s) |-> s[Len(s) + 1 - i]]

\* random.shuffle: the permutations followed are the identity and the reversal
shuffle(cards) == {cards, Reverse(cards)}

(***************************************************************************)
(* State of main.                                                          *)
(***************************************************************************)
VARIABLES
    game_state,       \* "home", "playing" or "end"
    home_timer,       \* round time chosen on the home screen
    timer,            \* seconds left in the round
    player_score,
    computer_score,
    all_cards,        \* the deck as last shuffled
    displayed_cards,  \* the board: slot -> Card or None
    remaining_deck,   \* cards not yet dealt, front first
    selected_cards,   \* board indices picked by the player, in pick order
    process,          \* "running", "quit" (QUIT event) or "AttributeError" (uncaught)
    call              \* a call of one of the functions on its own: arguments and result

vars == <<game_state, home_timer, timer, player_score, computer_score,
          all_cards, displayed_cards, remaining_deck, selected_cards, process, call>>

main_vars == <<game_state, home_timer, timer, player_score, computer_score,
               all_cards, displayed_cards, remaining_deck, selected_cards, process>>

\* no function is being called on its own
NoCall == [fn |-> "none", cards |-> <<>>]

\* all_cards[:12] as the board, slot i holding the i-th card
deal_board(cards) == [i \in 0 .. BoardSize - 1 |-> At(cards, i)]
\* the slice written as all_cards[11:]: the last dealt card also stays in the deck
deal_remaining_from_last_dealt(cards) == SubSeq(cards, BoardSize, Len(cards))

\* all_cards[12:]
deal_remaining(cards) == SubSeq(cards, BoardSize + 1, Len(cards))

\* [card for card in displayed_cards if card is not None]
cards_on_board(board) ==
    SelectSeq([i \in 1 .. BoardSize |-> board[i - 1]], LAMBDA c : c # None)

(***************************************************************************)
(* replace_cards: one index after the other, front of the deck or None.    *)
(***************************************************************************)
\* replace_cards with pop() in place of pop(0): the last card of the deck is dealt
RECURSIVE replace_cards_pops_last(_, _, _)
replace_cards_pops_last(board, deck, indices) ==
    IF indices = <<>> THEN [displayed_cards |-> board, remaining_deck |-> deck]
    ELSE LET idx == Head(indices)
         IN  IF deck # <<>>
             THEN replace_cards_pops_last([board EXCEPT ![idx] = deck[Len(deck)]],
                                          SubSeq(deck, 1, Len(deck) - 1), Tail(indices))
             ELSE replace_cards_pops_last([board EXCEPT ![idx] = None], deck, Tail(indices))

\* replace_cards testing len(remaining_deck) > 1: the last card is never dealt
RECURSIVE replace_cards_keeps_last_card(_, _, _)
replace_cards_keeps_last_card(board, deck, indices) ==
    IF indices = <<>> THEN [displayed_cards |-> board, remaining_deck |-> deck]
    ELSE LET idx == Head(indices)
         IN  IF Len(deck) > 1
             THEN replace_cards_keeps_last_card([board EXCEPT ![idx] = Head(deck)],
                                                Tail(deck), Tail(indices))
             ELSE replace_cards_keeps_last_card([board EXCEPT ![idx] = None],
                                                deck, Tail(indices))

\* replace_cards without the else branch: an exhausted deck leaves the slot as it is
RECURSIVE replace_cards_keeps_slot(_, _, _)
replace_cards_keeps_slot(board, deck, indices) ==
    IF indices = <<>> THEN [displayed_cards |-> board, remaining_deck |-> deck]
    ELSE LET idx == Head(indices)
         IN  IF deck # <<>>
             THEN replace_cards_keeps_slot([board EXCEPT ![idx] = Head(deck)],
                                           Tail(deck), Tail(indices))
             ELSE replace_cards_keeps_slot(board, deck, Tail(indices))

RECURSIVE replace_cards(_, _, _)
replace_cards(board, deck, indices) ==
    IF indices = <<>> THEN [displayed_cards |-> board, remaining_deck |-> deck]
    ELSE LET idx == Head(indices)
         IN  IF deck # <<>>
             THEN replace_cards([board EXCEPT ![idx] = Head(deck)], Tail(deck), Tail(indices))
             ELSE replace_cards([board EXCEPT ![idx] = None], deck, Tail(indices))

\* the end test without the deck: the game ends as soon as the board shows no set
end_check_ignores_deck(board, deck) ==
    IF find_all_sets(cards_on_board(board)) = <<>> THEN "end" ELSE "playing"

\* "Check for game end conditions" at the end of the playing branch; the two
\* tests of the condition are pure, the cheaper one is written first
end_check(board, deck) ==
    IF deck = <<>> /\ find_all_sets(cards_on_board(board)) = <<>>
    THEN "end" ELSE "playing"

(***************************************************************************)
(* Pointer positions that are followed: the four buttons of the home and   *)
(* end screens (on the playing screen the first two lie in cell 6, the     *)
(* last two in cell 10), one position in each of the cells 1, 2, 3 and 4,  *)
(* one in the strip right of the fourth column, one below the third row.   *)
(***************************************************************************)
UpButton == <<620, 370>>
DownButton == <<670, 370>>
StartButton == <<500, 420>>
PlayAgainButton == <<500, 520>>

Pointers ==
    {UpButton, DownButton, StartButton, PlayAgainButton}
    \cup {<<260, 10>>, <<510, 10>>, <<760, 10>>, <<10, 210>>}
    \cup {<<1010, 10>>, <<10, 610>>}

Init ==
    /\ game_state = "home"
    /\ home_timer \in 1 .. MaxHomeTimer
    /\ timer = DefaultHomeTimer
    /\ player_score = 0
    /\ computer_score = 0
    /\ \E first \in shuffle(load_cards_from_folder) : all_cards \in shuffle(first)
    /\ displayed_cards = deal_board(all_cards)
    /\ remaining_deck = deal_remaining(all_cards)
    /\ selected_cards = <<>>
    /\ process = "running"
    /\ call = NoCall

(***************************************************************************)
(* reset_game, as called by the start button.                              *)
(***************************************************************************)
reset_game ==
    /\ all_cards' \in shuffle(all_cards)
    /\ displayed_cards' = deal_board(all_cards')
    /\ remaining_deck' = deal_remaining(all_cards')
    /\ player_score' = 0
    /\ computer_score' = 0
    /\ timer' = home_timer

\* replace_cards([0, 1, 2]) of the countdown handler, written with slots counted from 1
fallback_indices_from_one == <<1, 2, 3>>

\* the indices of replace_cards([0, 1, 2]) in the countdown handler
fallback_indices == <<0, 1, 2>>

\* the countdown test written as timer < 0
timer_expired_below_zero(t) == t < 0

\* "if timer <= 0" after the decrement
timer_expired(t) == t <= 0

(***************************************************************************)
(* Event handlers of the main loop.                                        *)
(***************************************************************************)
QUIT ==
    /\ process = "running"
    /\ process' = "quit"
    /\ UNCHANGED <<game_state, home_timer, timer, player_score, computer_score,
                   all_cards, displayed_cards, remaining_deck, selected_cards, call>>

home_MOUSEBUTTONDOWN(x, y) ==
    /\ process = "running"
    /\ game_state = "home"
    /\ IF 600 <= x /\ x <= 640 /\ 350 <= y /\ y <= 390
       THEN /\ home_timer < MaxHomeTimer
            /\ home_timer' = home_timer + 1
            /\ UNCHANGED <<game_state, timer, player_score, computer_score,
                           all_cards, displayed_cards, remaining_deck>>
       ELSE IF 650 <= x /\ x <= 690 /\ 350 <= y /\ y <= 390
       THEN /\ home_timer' = IF home_timer - 1 > 1 THEN home_timer - 1 ELSE 1
            /\ UNCHANGED <<game_state, timer, player_score, computer_score,
                           all_cards, displayed_cards, remaining_deck>>
       ELSE IF 450 <= x /\ x <= 600 /\ 400 <= y /\ y <= 440
       THEN /\ reset_game
            /\ game_state' = "playing"
            /\ UNCHANGED home_timer
       ELSE UNCHANGED <<game_state, home_timer, timer, player_score, computer_score,
                        all_cards, displayed_cards, remaining_deck>>
    /\ UNCHANGED <<selected_cards, process, call>>

playing_USEREVENT ==
    /\ process = "running"
    /\ game_state = "playing"
    /\ computer_score < MaxScore
    /\ IF timer_expired(timer - 1)
       THEN LET found_set == find_one_set(cards_on_board(displayed_cards))
                replaced == IF found_set # NoSet
                            THEN replace_cards(displayed_cards, remaining_deck, found_set)
                            ELSE replace_cards(displayed_cards, remaining_deck, fallback_indices)
            IN  /\ computer_score' = IF found_set # NoSet THEN computer_score + 1
                                     ELSE computer_score
                /\ displayed_cards' = replaced.displayed_cards
                /\ remaining_deck' = replaced.remaining_deck
                /\ timer' = home_timer
       ELSE /\ timer' = timer - 1
            /\ UNCHANGED <<computer_score, displayed_cards, remaining_deck>>
    /\ game_state' = end_check(displayed_cards', remaining_deck')
    /\ UNCHANGED <<home_timer, player_score, all_cards, selected_cards, process, call>>

\* the click handler with "timer = home_timer" one level out: the countdown is
\* put back after every evaluation, valid or not
playing_MOUSEBUTTONDOWN_resets_timer(mouse_x, mouse_y) ==
    /\ process = "running"
    /\ game_state = "playing"
    /\ LET clicked_index == (mouse_y \div 200) * 4 + (mouse_x \div 250)
           toggled == IF \E n \in 1 .. Len(selected_cards) : selected_cards[n] = clicked_index
                      THEN SelectSeq(selected_cards, LAMBDA i : i # clicked_index)
                      ELSE Append(selected_cards, clicked_index)
       IN  IF 0 <= clicked_index /\ clicked_index < BoardSize
              /\ displayed_cards[clicked_index] # None
           THEN IF Len(toggled) = 3
                THEN LET cards == [n \in 1 .. 3 |-> displayed_cards[toggled[n]]]
                     IN  IF \E n \in 1 .. 3 : cards[n] = None
                         THEN \* None.as_vector() raises and nothing catches it
                              /\ process' = "AttributeError"
                              /\ selected_cards' = toggled
                              /\ UNCHANGED <<game_state, timer, player_score,
                                             displayed_cards, remaining_deck>>
                         ELSE /\ IF is_set(cards[1], cards[2], cards[3])
                                 THEN LET replaced == replace_cards(displayed_cards,
                                                          remaining_deck, toggled)
                                      IN  /\ player_score' = player_score + 1
                                          /\ displayed_cards' = replaced.displayed_cards
                                          /\ remaining_deck' = replaced.remaining_deck
                                          /\ timer' = home_timer
                                 ELSE /\ timer' = home_timer
                                      /\ UNCHANGED <<player_score, displayed_cards,
                                                     remaining_deck>>
                              /\ selected_cards' = <<>>
                              /\ game_state' = end_check(displayed_cards', remaining_deck')
                              /\ UNCHANGED process
                ELSE /\ selected_cards' = toggled
                     /\ game_state' = end_check(displayed_cards, remaining_deck)
                     /\ UNCHANGED <<timer, player_score, displayed_cards,
                                    remaining_deck, process>>
           ELSE /\ game_state' = end_check(displayed_cards, remaining_deck)
                /\ UNCHANGED <<timer, player_score, displayed_cards, remaining_deck,
                               selected_cards, process>>
    /\ UNCHANGED <<home_timer, computer_score, all_cards, call>>

playing_MOUSEBUTTONDOWN(mouse_x, mouse_y) ==
    /\ process = "running"
    /\ game_state = "playing"
    /\ LET clicked_index == (mouse_y \div 200) * 4 + (mouse_x \div 250)
           toggled == IF \E n \in 1 .. Len(selected_cards) : selected_cards[n] = clicked_index
                      THEN SelectSeq(selected_cards, LAMBDA i : i # clicked_index)
                      ELSE Append(selected_cards, clicked_index)
       IN  IF 0 <= clicked_index /\ clicked_index < BoardSize
              /\ displayed_cards[clicked_index] # None
           THEN IF Len(toggled) = 3
                THEN LET cards == [n \in 1 .. 3 |-> displayed_cards[toggled[n]]]
                     IN  IF \E n \in 1 .. 3 : cards[n] = None
                         THEN \* None.as_vector() raises and nothing catches it
                              /\ process' = "AttributeError"
                              /\ selected_cards' = toggled
                              /\ UNCHANGED <<game_state, timer, player_score,
                                             displayed_cards, remaining_deck>>
                         ELSE /\ IF is_set(cards[1], cards[2], cards[3])
                                 THEN LET replaced == replace_cards(displayed_cards,
                                                          remaining_deck, toggled)
                                      IN  /\ player_score' = player_score + 1
                                          /\ displayed_cards' = replaced.displayed_cards
                                          /\ remaining_deck' = replaced.remaining_deck
                                          /\ timer' = home_timer
                                 ELSE UNCHANGED <<timer, player_score,
                                                  displayed_cards, remaining_deck>>
                              /\ selected_cards' = <<>>
                              /\ game_state' = end_check(displayed_cards', remaining_deck')
                              /\ UNCHANGED process
                ELSE /\ selected_cards' = toggled
                     /\ game_state' = end_check(displayed_cards, remaining_deck)
                     /\ UNCHANGED <<timer, player_score, displayed_cards,
                                    remaining_deck, process>>
           ELSE /\ game_state' = end_check(displayed_cards, remaining_deck)
                /\ UNCHANGED <<timer, player_score, displayed_cards, remaining_deck,
                               selected_cards, process>>
    /\ UNCHANGED <<home_timer, computer_score, all_cards, call>>

\* the end branch with the replay button starting the next game at once
end_MOUSEBUTTONDOWN_restarts(x, y) ==
    /\ process = "running"
    /\ game_state = "end"
    /\ IF 450 <= x /\ x <= 600 /\ 500 <= y /\ y <= 540
       THEN game_state' = "playing"
       ELSE UNCHANGED game_state
    /\ UNCHANGED <<home_timer, timer, player_score, computer_score, all_cards,
                   displayed_cards, remaining_deck, selected_cards, process, call>>

end_MOUSEBUTTONDOWN(x, y) ==
    /\ process = "running"
    /\ game_state = "end"
    /\ IF 450 <= x /\ x <= 600 /\ 500 <= y /\ y <= 540
       THEN game_state' = "home"
       ELSE UNCHANGED game_state
    /\ UNCHANGED <<home_timer, timer, player_score, computer_score, all_cards,
                   displayed_cards, remaining_deck, selected_cards, process, call>>

\* the countdown handled before the dispatch on game_state: a tick on the home
\* or end screen takes a second off the timer
ignored_USEREVENT_counts_down ==
    /\ process = "running"
    /\ game_state \in {"home", "end"}
    /\ timer > 0
    /\ timer' = timer - 1
    /\ UNCHANGED <<game_state, home_timer, player_score, computer_score, all_cards,
                   displayed_cards, remaining_deck, selected_cards, process, call>>

\* a countdown tick on the home or end screen: neither branch handles USEREVENT
ignored_USEREVENT ==
    /\ process = "running"
    /\ game_state \in {"home", "end"}
    /\ UNCHANGED vars

Next ==
    \/ QUIT
    \/ ignored_USEREVENT
    \/ \E pos \in Pointers : home_MOUSEBUTTONDOWN(pos[1], pos[2])
    \/ playing_USEREVENT
    \/ \E pos \in Pointers : playing_MOUSEBUTTONDOWN(pos[1], pos[2])
    \/ \E pos \in Pointers : end_MOUSEBUTTONDOWN(pos[1], pos[2])

Spec == Init /\ [][Next]_vars

(***************************************************************************)
(* The game left to the computer: the player uses the home and end screens *)
(* but never clicks on the playing screen. reset_game starts a timer that  *)
(* posts USEREVENT every second and nothing stops it, so a tick that can   *)
(* be handled on the playing screen is eventually handled.                 *)
(***************************************************************************)
\* random.shuffle at start-up: the permutations followed here are the
\* rotations of the listing
Rotate(cards, n) == SubSeq(cards, n + 1, Len(cards)) \o SubSeq(cards, 1, n)

InitTicks ==
    /\ game_state = "home"
    /\ home_timer \in 1 .. MaxHomeTimer
    /\ timer = DefaultHomeTimer
    /\ player_score = 0
    /\ computer_score = 0
    /\ \E n \in 0 .. Len(load_cards_from_folder) - 1 :
          all_cards = Rotate(load_cards_from_folder, n)
    /\ displayed_cards = deal_board(all_cards)
    /\ remaining_deck = deal_remaining(all_cards)
    /\ selected_cards = <<>>
    /\ process = "running"
    /\ call = NoCall

NextTicks ==
    \/ ignored_USEREVENT
    \/ \E pos \in Pointers : home_MOUSEBUTTONDOWN(pos[1], pos[2])
    \/ playing_USEREVENT
    \/ \E pos \in Pointers : end_MOUSEBUTTONDOWN(pos[1], pos[2])

SpecTicks == InitTicks /\ [][NextTicks]_vars /\ WF_vars(playing_USEREVENT)

(***************************************************************************)
(* The functions on their own: find_one_set, find_all_sets and             *)
(* replace_cards applied to card lists of up to MaxLen cards (repeats      *)
(* allowed) drawn from six cards, while the game sits on the home screen.  *)
(***************************************************************************)
TestCards == {
    card("red", "diamond", "empty", 1),
    card("red", "diamond", "empty", 2),
    card("red", "diamond", "empty", 3),
    card("green", "squiggle", "filled", 1),
    card("purple", "oval", "shaded", 1),
    card("green", "oval", "empty", 2) }

RECURSIVE ListsUpTo(_)
ListsUpTo(n) ==
    IF n = 0 THEN {<<>>}
    ELSE LET shorter == ListsUpTo(n - 1)
         IN  shorter \cup {Append(l, c) : l \in {x \in shorter : Len(x) = n - 1}, c \in TestCards}

TestLists == ListsUpTo(MaxLen)

\* index lists handed to replace_cards: a triple in and out of order, a
\* repeated index, a pair, the last slot alone, none
TestIndices == {<<0, 1, 2>>, <<6, 2, 4>>, <<3, 3, 5>>, <<11, 0>>, <<11>>, <<>>}

TestBoard == deal_board(Listing)

InitCall ==
    /\ game_state = "home"
    /\ home_timer = DefaultHomeTimer
    /\ timer = DefaultHomeTimer
    /\ player_score = 0
    /\ computer_score = 0
    /\ all_cards = load_cards_from_folder
    /\ displayed_cards = deal_board(all_cards)
    /\ remaining_deck = deal_remaining(all_cards)
    /\ selected_cards = <<>>
    /\ process = "running"
    /\ \E cs \in TestLists : call = [fn |-> "none", cards |-> cs]

call_find_one_set ==
    /\ call.fn = "none"
    /\ call' = [fn |-> "find_one_set", cards |-> call.cards,
                returned |-> find_one_set(call.cards)]
    /\ UNCHANGED main_vars

call_find_all_sets ==
    /\ call.fn = "none"
    /\ call' = [fn |-> "find_all_sets", cards |-> call.cards,
                returned |-> find_all_sets(call.cards)]
    /\ UNCHANGED main_vars

\* replace_cards with call.cards as the remaining deck
call_replace_cards ==
    /\ call.fn = "none"
    /\ \E indices \in TestIndices :
          call' = [fn |-> "replace_cards", cards |-> call.cards, indices |-> indices,
                   returned |-> replace_cards(TestBoard, call.cards, indices)]
    /\ UNCHANGED main_vars

NextCall ==
    \/ call_find_one_set
    \/ call_find_all_sets
    \/ call_replace_cards

SpecCall == InitCall /\ [][NextCall]_vars

(***************************************************************************)
(* is_set on its own: two cards of the full deck of 81 are drawn and is_set *)
(* is applied to them together with each card of the deck in turn.         *)
(***************************************************************************)
InitIsSet ==
    /\ game_state = "home"
    /\ home_timer = DefaultHomeTimer
    /\ timer = DefaultHomeTimer
    /\ player_score = 0
    /\ computer_score = 0
    /\ all_cards = load_cards_from_folder
    /\ displayed_cards = deal_board(all_cards)
    /\ remaining_deck = deal_remaining(all_cards)
    /\ selected_cards = <<>>
    /\ process = "running"
    /\ \E card1, card2 \in Card : call = [fn |-> "none", cards |-> <<card1, card2>>]

\* is_set(card1, card2, card3) for every card3; the cards it accepts are kept
call_is_set ==
    /\ call.fn = "none"
    /\ call' = [fn |-> "is_set", cards |-> call.cards,
                returned |-> {card3 \in Card : is_set(call.cards[1], call.cards[2], card3)}]
    /\ UNCHANGED main_vars

NextIsSet == call_is_set

SpecIsSet == InitIsSet /\ [][NextIsSet]_vars

(***************************************************************************)
(* Properties of the functions on their own (checked under SpecCall).      *)
(***************************************************************************)
\* the index triples i < j < k of cs whose cards satisfy is_set
ValidTriples(cs) ==
    {t \in (0 .. Len(cs) - 1) \X (0 .. Len(cs) - 1) \X (0 .. Len(cs) - 1) :
        t[1] < t[2] /\ t[2] < t[3] /\ is_set(At(cs, t[1]), At(cs, t[2]), At(cs, t[3]))}

LexLess(t, u) ==
    \/ t[1] < u[1]
    \/ t[1] = u[1] /\ t[2] < u[2]
    \/ t[1] = u[1] /\ t[2] = u[2] /\ t[3] < u[3]

\* C9: find_one_set returns the lexicographically smallest triple i < j < k
\* whose cards satisfy is_set and nothing when there is none; nothing for
\* fewer than 3 cards; and the first element of find_all_sets on the same
\* list whenever that is non-empty.
C9_FindOneSetIsFirst ==
    call.fn = "find_one_set" =>
        LET cs == call.cards
            found == call.returned
            valid == ValidTriples(cs)
        IN  /\ valid = {} => found = NoSet
            /\ valid # {} => /\ found \in valid
                             /\ \A t \in valid \ {found} : LexLess(found, t)
            /\ Len(cs) < 3 => found = NoSet
            /\ find_all_sets(cs) # <<>> => found = find_all_sets(cs)[1]

\* a call on a list with several valid triples, the first of which is not (0,1,2)
C9_Witness ==
    /\ call.fn = "find_one_set"
    /\ Cardinality(ValidTriples(call.cards)) >= 2
    /\ call.returned # NoSet
    /\ call.returned # <<0, 1, 2>>

\* C10: find_all_sets returns exactly the triples i < j < k whose cards
\* satisfy is_set: each returned triple is valid, no valid triple is missing,
\* none is repeated, and they are in ascending lexicographic order.
C10_FindAllSetsExact ==
    call.fn = "find_all_sets" =>
        LET cs == call.cards
            sets == call.returned
            valid == ValidTriples(cs)
        IN  /\ \A n \in 1 .. Len(sets) : sets[n] \in valid
            /\ \A t \in valid : \E n \in 1 .. Len(sets) : sets[n] = t
            /\ \A m, n \in 1 .. Len(sets) : m < n => sets[m] # sets[n]
            /\ \A m, n \in 1 .. Len(sets) : m < n => LexLess(sets[m], sets[n])

\* a call that returns several triples but not every triple of the list
C10_Witness ==
    /\ call.fn = "find_all_sets"
    /\ Len(call.returned) >= 2
    /\ Len(call.cards) = 4
    /\ Len(call.returned) < 4

\* C5: replace_cards processes the indices in the given order: the n-th index
\* processed receives the n-th card from the front of the deck, or None once
\* the deck is exhausted; slots not in indices are unchanged; the deck keeps
\* the cards that were not handed out, in their order. With one card left,
\* replace [0, 1, 2] puts it in slot 0 and empties slots 1 and 2.
C5_ReplaceInOrder ==
    call.fn = "replace_cards" =>
        LET deck == call.cards
            indices == call.indices
            after == call.returned
            handed == IF Len(indices) < Len(deck) THEN Len(indices) ELSE Len(deck)
            Given(n) == IF n <= Len(deck) THEN deck[n] ELSE None
            LastAt(slot) == CHOOSE n \in 1 .. Len(indices) :
                                /\ indices[n] = slot
                                /\ \A m \in n + 1 .. Len(indices) : indices[m] # slot
        IN  /\ \A slot \in 0 .. BoardSize - 1 :
                   IF \E n \in 1 .. Len(indices) : indices[n] = slot
                   THEN after.displayed_cards[slot] = Given(LastAt(slot))
                   ELSE after.displayed_cards[slot] = TestBoard[slot]
            /\ after.remaining_deck = SubSeq(deck, handed + 1, Len(deck))
            /\ (indices = <<0, 1, 2>> /\ Len(deck) = 1) =>
                   /\ after.displayed_cards[0] = deck[1]
                   /\ after.displayed_cards[1] = None
                   /\ after.displayed_cards[2] = None

\* replace_cards([0, 1, 2]) was called with exactly one card left
C5_Witness ==
    /\ call.fn = "replace_cards"
    /\ call.indices = <<0, 1, 2>>
    /\ Len(call.cards) = 1
    /\ call.returned.displayed_cards[0] = call.cards[1]
    /\ call.returned.displayed_cards[2] = None
    /\ call.returned.remaining_deck = <<>>

\* C11: for all cards a and b of the deck of 81 there is exactly one card c
\* of the deck with is_set(a, b, c), and that c equals a or b only when
\* a = b.
C11_UniqueThirdCard ==
    call.fn = "is_set" =>
        LET a == call.cards[1]
            b == call.cards[2]
        IN  /\ Cardinality(Card) = 81
            /\ Cardinality(call.returned) = 1
            /\ \A c \in call.returned : (c = a \/ c = b) => a = b

\* is_set was applied to two different cards that agree in some attributes
\* and differ in others, and accepted a third card different from both
C11_Witness ==
    /\ call.fn = "is_set"
    /\ call.cards[1].color = call.cards[2].color
    /\ call.cards[1].number # call.cards[2].number
    /\ \E c \in call.returned : c # call.cards[1] /\ c # call.cards[2]

(***************************************************************************)
(* Properties of the game (checked under Spec).                            *)
(***************************************************************************)
Slots == 0 .. BoardSize - 1

\* the slot a pointer position is mapped to on the playing screen
ClickedSlot(pos) == (pos[2] \div 200) * 4 + (pos[1] \div 250)

\* no three cards lying on the board form a set
NoSetOnBoard(board) ==
    ~ \E a, b, c \in Slots :
          /\ a < b /\ b < c
          /\ board[a] # None /\ board[b] # None /\ board[c] # None
          /\ is_set(board[a], board[b], board[c])

\* the deck after handing out its first n cards (or all it has)
DeckAfter(deck, n) == SubSeq(deck, (IF n < Len(deck) THEN n ELSE Len(deck)) + 1, Len(deck))

\* what the n-th replaced slot receives from the deck
Dealt(deck, n) == IF n <= Len(deck) THEN deck[n] ELSE None

\* the slots of picks get the front cards of the deck in pick order, every
\* other slot stays, the deck loses the cards handed out
ReplacedExactly(picks) ==
    /\ \A n \in 1 .. Len(picks) : displayed_cards'[picks[n]] = Dealt(remaining_deck, n)
    /\ \A slot \in Slots :
           (\A n \in 1 .. Len(picks) : picks[n] # slot) =>
               displayed_cards'[slot] = displayed_cards[slot]
    /\ remaining_deck' = DeckAfter(remaining_deck, Len(picks))

\* the slot of the board that holds the given card
SlotOf(board, c) == CHOOSE slot \in Slots : board[slot] = c

\* C1: when a tick brings the timer to 0 and find_one_set finds a triple
\* among the cards on the board, computer_score grows by exactly 1 and the
\* slots replaced are exactly the slots holding the three cards of that
\* triple, also on boards that already have empty slots.
C1_ComputerReplacesFoundSet ==
    [][ (/\ game_state = "playing"
         /\ timer = 1
         /\ find_one_set(cards_on_board(displayed_cards)) # NoSet
         /\ playing_USEREVENT)
        => LET on_board == cards_on_board(displayed_cards)
               found_set == find_one_set(on_board)
               set_slots == [n \in 1 .. 3 |->
                                SlotOf(displayed_cards, At(on_board, found_set[n]))]
           IN  /\ computer_score' = computer_score + 1
               /\ ReplacedExactly(set_slots) ]_vars

\* C2: when the player's third pick completes a selection of three slots
\* whose cards satisfy is_set, player_score grows by exactly 1, exactly those
\* three slots are replaced (front card of the deck each, None once it is
\* exhausted), the selection is empty, timer is home_timer and
\* computer_score is unchanged.
C2_PlayerSetClaimed ==
    [][ \A pos \in Pointers :
          LET picks == Append(selected_cards, ClickedSlot(pos))
          IN  (/\ game_state = "playing"
               /\ Len(selected_cards) = 2
               /\ ClickedSlot(pos) \in Slots
               /\ \A n \in 1 .. 2 : selected_cards[n] # ClickedSlot(pos)
               /\ \A n \in 1 .. 3 : displayed_cards[picks[n]] # None
               /\ is_set(displayed_cards[picks[1]], displayed_cards[picks[2]],
                         displayed_cards[picks[3]])
               /\ playing_MOUSEBUTTONDOWN(pos[1], pos[2]))
              => /\ player_score' = player_score + 1
                 /\ computer_score' = computer_score
                 /\ ReplacedExactly(picks)
                 /\ selected_cards' = <<>>
                 /\ timer' = home_timer ]_vars

\* the player has claimed a set that used up the deck: three deck cards lie
\* on the board, nothing is selected and the countdown is back at home_timer
C2_Witness ==
    /\ game_state = "playing"
    /\ player_score = 1
    /\ computer_score = 0
    /\ remaining_deck = <<>>
    /\ \A slot \in Slots : displayed_cards[slot] # None
    /\ selected_cards = <<>>
    /\ timer = home_timer

\* C3: after every tick and every click processed on the playing screen the
\* state is "end" exactly if no three cards on the board form a set and the
\* deck is empty (otherwise it stays "playing"); and whenever the state is
\* "end" the deck is empty and no three cards on the board form a set.
C3_EndIffNoSetNoDeck ==
    [][ /\ (game_state = "playing" /\ process' = "running") =>
               IF game_state' = "end"
               THEN remaining_deck' = <<>> /\ NoSetOnBoard(displayed_cards')
               ELSE /\ game_state' = "playing"
                    /\ (remaining_deck' # <<>> \/ ~NoSetOnBoard(displayed_cards'))
        /\ game_state' = "end" =>
               remaining_deck' = <<>> /\ NoSetOnBoard(displayed_cards') ]_vars

\* the game has ended with cards still lying on the board
C3_Witness ==
    /\ game_state = "end"
    /\ remaining_deck = <<>>
    /\ \E slot \in Slots : displayed_cards[slot] # None

\* C4: when a tick brings the timer to 0, no three cards on the board form a
\* set and the deck is not empty, slots 0, 1 and 2 are replaced from the deck
\* whatever they hold, both scores are unchanged and timer is home_timer.
C4_FallbackReplacesFirstThree ==
    [][ (/\ game_state = "playing"
         /\ timer = 1
         /\ remaining_deck # <<>>
         /\ NoSetOnBoard(displayed_cards)
         /\ playing_USEREVENT)
        => /\ ReplacedExactly(<<0, 1, 2>>)
           /\ computer_score' = computer_score
           /\ player_score' = player_score
           /\ timer' = home_timer ]_vars

\* deck cards have reached slots 0, 1, 2 without anyone scoring
C4_Witness ==
    /\ player_score = 0
    /\ computer_score = 0
    /\ Len(remaining_deck) < ExtraCards
    /\ \A n \in 1 .. 3 : displayed_cards[n - 1] = all_cards[BoardSize + n]
    /\ timer = home_timer

\* C6: the board has exactly 12 slots, and a slot is None only if the deck
\* is empty.
C6_EmptySlotOnlyIfDeckEmpty ==
    /\ DOMAIN displayed_cards = 0 .. 11
    /\ (\E slot \in DOMAIN displayed_cards : displayed_cards[slot] = None) =>
           remaining_deck = <<>>

\* a board with an empty slot and a card, while playing
C6_Witness ==
    /\ game_state = "playing"
    /\ \E slot \in Slots : displayed_cards[slot] = None
    /\ \E slot \in Slots : displayed_cards[slot] # None

\* C7: the selection holds at most 2 pairwise distinct board indices: a pick
\* that brings it to 3 is evaluated in the same event and the selection is
\* emptied, whether or not the three cards form a set.
C7_SelectionAtMostTwo ==
    /\ Len(selected_cards) <= 2
    /\ \A n \in 1 .. Len(selected_cards) : selected_cards[n] \in Slots
    /\ \A m, n \in 1 .. Len(selected_cards) : m # n => selected_cards[m] # selected_cards[n]

\* C8: on the playing screen 1 <= timer <= home_timer; a tick takes exactly 1
\* off the timer, and the timer is put back to home_timer exactly when a game
\* starts, when a valid set is claimed (by the player, or by the computer,
\* which moves when the countdown reaches 0) or when the countdown reaches 0;
\* no other event touches it.
C8_TimerCountsDown ==
    [][ /\ game_state' = "playing" => (1 <= timer' /\ timer' <= home_timer')
        /\ (game_state = "home" /\ game_state' = "playing") => timer' = home_timer
        /\ (game_state = "playing" /\ process' = "running") =>
               IF playing_USEREVENT
               THEN timer' = IF timer - 1 = 0 THEN home_timer ELSE timer - 1
               ELSE timer' = IF player_score' = player_score + 1 THEN home_timer ELSE timer
        /\ (game_state = "playing" /\ computer_score' = computer_score + 1) =>
               (timer = 1 /\ timer' = home_timer)
        /\ (game_state # "playing" /\ game_state' # "playing") => timer' = timer ]_vars

\* the countdown has run down once (the computer scored) and a further tick
\* has taken one second off the new round
C8_Witness ==
    /\ game_state = "playing"
    /\ computer_score >= 1
    /\ home_timer = 2
    /\ timer = 1

\* how often card c occurs in the list s
Occurrences(s, c) == Cardinality({n \in 1 .. Len(s) : s[n] = c})

\* s holds the cards of t, each as often, in some order
IsPermutation(s, t) ==
    /\ Len(s) = Len(t)
    /\ \A n \in 1 .. Len(t) : Occurrences(s, t[n]) = Occurrences(t, t[n])

\* C12: the start action on the home screen runs reset_game and moves to
\* playing with: the board holding the first 12 cards of a permutation of the
\* deck in index order (no empty slot), the remaining deck holding the other
\* cards (69 of 81; here ExtraCards of 12 + ExtraCards) in the same order,
\* player_score = 0, computer_score = 0 and timer = home_timer.
C12_StartDealsNewGame ==
    [][ (/\ game_state = "home"
         /\ home_MOUSEBUTTONDOWN(StartButton[1], StartButton[2]))
        => /\ game_state' = "playing"
           /\ IsPermutation(all_cards', load_cards_from_folder)
           /\ \A slot \in Slots : /\ displayed_cards'[slot] = At(all_cards', slot)
                                   /\ displayed_cards'[slot] # None
           /\ Len(remaining_deck') = Len(load_cards_from_folder) - BoardSize
           /\ \A n \in 1 .. Len(remaining_deck') :
                  remaining_deck'[n] = all_cards'[BoardSize + n]
           /\ player_score' = 0
           /\ computer_score' = 0
           /\ timer' = home_timer ]_vars

\* a game has just been started on a deck in another order than the folder's,
\* with a round time other than the one the countdown held before
C12_Witness ==
    /\ game_state = "playing"
    /\ all_cards # load_cards_from_folder
    /\ displayed_cards = deal_board(all_cards)
    /\ Len(remaining_deck) = ExtraCards
    /\ player_score = 0
    /\ computer_score = 0
    /\ timer = home_timer
    /\ timer # DefaultHomeTimer

\* C13: game_state is always one of "home", "playing", "end", starting in
\* "home", and the only changes are home -> playing (on the start action
\* only), playing -> end (by the end check only, after an event handled on
\* the playing screen) and end -> home (on the replay action only).
C13_StatesAndTransitions ==
    /\ game_state = "home"
    /\ [][ /\ game_state' \in {"home", "playing", "end"}
           /\ game_state' # game_state =>
                  \/ /\ game_state = "home"
                     /\ game_state' = "playing"
                     /\ home_MOUSEBUTTONDOWN(StartButton[1], StartButton[2])
                  \/ /\ game_state = "playing"
                     /\ game_state' = "end"
                     /\ remaining_deck' = <<>>
                     /\ NoSetOnBoard(displayed_cards')
                     /\ \/ playing_USEREVENT
                        \/ \E pos \in Pointers : playing_MOUSEBUTTONDOWN(pos[1], pos[2])
                  \/ /\ game_state = "end"
                     /\ game_state' = "home"
                     /\ end_MOUSEBUTTONDOWN(PlayAgainButton[1], PlayAgainButton[2]) ]_vars

\* the home screen after a game has been played to its end and left by replay
C13_Witness ==
    /\ game_state = "home"
    /\ remaining_deck = <<>>
    /\ player_score + computer_score >= 1

\* the cards lying on the board or waiting in the deck
CardsInPlay == Len(cards_on_board(displayed_cards)) + Len(remaining_deck)

\* C17: under fair delivery of the one-second ticks and with no player input
\* on the playing screen, every game that enters "playing" eventually reaches
\* "end": no move of the computer leaves the number of cards on the board and
\* in the deck as it was, so its moves cannot repeat forever.
C17_ComputerGameEnds ==
    /\ (game_state = "playing") ~> (game_state = "end")
    /\ [][ (playing_USEREVENT /\ computer_score' = computer_score + 1)
           => Len(cards_on_board(displayed_cards')) + Len(remaining_deck')
                  < CardsInPlay ]_vars

\* C14: a tick delivered on the home or end screen has no effect: timer, both
\* scores, board, deck, selection and game_state are unchanged; and no event
\* handled outside "playing" other than the start of a game changes the
\* scores or the timer.
C14_TickIgnoredOutsidePlaying ==
    [][ (game_state = "home" \/ game_state = "end") =>
          (/\ ignored_USEREVENT =>
                  UNCHANGED <<timer, player_score, computer_score, displayed_cards,
                              remaining_deck, selected_cards, game_state>>
           /\ game_state' # "playing" =>
                  UNCHANGED <<timer, player_score, computer_score>>) ]_vars

\* the end screen of a game in which both sides scored, the program still
\* running and receiving ticks
C14_Witness ==
    /\ game_state = "end"
    /\ process = "running"
    /\ player_score >= 1
    /\ computer_score >= 1
    /\ ENABLED ignored_USEREVENT

\* C15: when the player's third pick completes a selection of three cards
\* that do not satisfy is_set, the selection is emptied and player_score,
\* computer_score, timer, the board and the deck are unchanged by that event.
C15_InvalidPickChangesNothing ==
    [][ \A pos \in Pointers :
          LET picks == Append(selected_cards, ClickedSlot(pos))
          IN  (/\ game_state = "playing"
               /\ Len(selected_cards) = 2
               /\ ClickedSlot(pos) \in Slots
               /\ \A n \in 1 .. 2 : selected_cards[n] # ClickedSlot(pos)
               /\ \A n \in 1 .. 3 : displayed_cards[picks[n]] # None
               /\ ~ is_set(displayed_cards[picks[1]], displayed_cards[picks[2]],
                           displayed_cards[picks[3]])
               /\ playing_MOUSEBUTTONDOWN(pos[1], pos[2]))
              => /\ selected_cards' = <<>>
                 /\ UNCHANGED <<player_score, computer_score, timer,
                                displayed_cards, remaining_deck>> ]_vars

\* two cards are picked, the countdown is under way, and a third card that
\* can be clicked does not make a set with them
C15_Witness ==
    /\ game_state = "playing"
    /\ process = "running"
    /\ Len(selected_cards) = 2
    /\ timer < home_timer
    /\ \A n \in 1 .. 2 : displayed_cards[selected_cards[n]] # None
    /\ \E pos \in Pointers :
          /\ ClickedSlot(pos) \in Slots
          /\ \A n \in 1 .. 2 : selected_cards[n] # ClickedSlot(pos)
          /\ displayed_cards[ClickedSlot(pos)] # None
          /\ ~ is_set(displayed_cards[selected_cards[1]], displayed_cards[selected_cards[2]],
                      displayed_cards[ClickedSlot(pos)])

\* C16: in every reachable state every index of the selection is a board slot
\* that holds a card, never None, so that evaluating a completed selection
\* applies is_set to three cards and never fails, whatever ticks and picks
\* came before.
C16_SelectionHoldsCards ==
    /\ \A n \in 1 .. Len(selected_cards) :
           /\ selected_cards[n] \in Slots
           /\ displayed_cards[selected_cards[n]] # None
    /\ process # "AttributeError"

\* the cards in play, board slots first, then the deck
InPlay(board, deck) == cards_on_board(board) \o deck

\* C18: within one game no card is in two places at once (two board slots,
\* or a board slot and the deck), the number of cards on the board plus in
\* the deck never increases, and player_score + computer_score never exceeds
\* a third of the deck (27 for the deck of 81): each point accounts for
\* three distinct cards leaving play.
C18_CardsAccountedFor ==
    /\ \A m, n \in 1 .. Len(InPlay(displayed_cards, remaining_deck)) :
           m # n => InPlay(displayed_cards, remaining_deck)[m]
                        # InPlay(displayed_cards, remaining_deck)[n]
    /\ [][ LET after == InPlay(displayed_cards', remaining_deck')
           IN  /\ \A m, n \in 1 .. Len(after) : m # n => after[m] # after[n]
               /\ ~ (game_state = "home" /\ game_state' = "playing") =>
                      Len(after) <= CardsInPlay
               /\ player_score' + computer_score' <= Len(all_cards') \div 3 ]_vars

\* C19: whenever the state becomes "playing" (a game is started by
\* reset_game, also after a replay) the selection is empty: no pick of an
\* earlier game is carried into the new one.
C19_NewGameEmptySelection ==
    [][ (game_state # "playing" /\ game_state' = "playing")
        => selected_cards' = <<>> ]_vars

\* the row and column of the 4 x 3 grid a pointer position lies in
GridRow(pos) == pos[2] \div 200

GridColumn(pos) == pos[1] \div 250

InGrid(pos) == GridRow(pos) \in 0 .. 2 /\ GridColumn(pos) \in 0 .. 3

\* the slots that enter or leave the selection in the step
Toggled == {i \in Slots : (\E n \in 1 .. Len(selected_cards) : selected_cards[n] = i)
                            # (\E n \in 1 .. Len(selected_cards') : selected_cards'[n] = i)}

\* C20: for every pointer position inside the 1024 x 768 window on the
\* playing screen, the click is mapped to board index i only if
\* floor(y / 200) = i div 4 and floor(x / 250) = i mod 4, with the column in
\* 0..3 and the row in 0..2; a position outside the 4 x 3 grid selects no
\* slot.
C20_ClickMapsToGridCell ==
    [][ \A pos \in Pointers :
          (/\ game_state = "playing"
           /\ pos[1] \in 0 .. 1023 /\ pos[2] \in 0 .. 767
           /\ playing_MOUSEBUTTONDOWN(pos[1], pos[2]))
          => IF InGrid(pos)
             THEN Len(selected_cards) < 2 =>
                      \A i \in Toggled : GridRow(pos) = i \div 4 /\ GridColumn(pos) = i % 4
             ELSE UNCHANGED <<selected_cards, displayed_cards, remaining_deck,
                              player_score, process>> ]_vars

====
